---- MODULE Spec2Model ----
(***************************************************************************)
(* RealTime Prague Tour (realtimepythonweb.py): the progression and        *)
(* scoring engine, team formation, and the two player actions, as a state  *)
(* machine over the database tables.                                       *)
(*                                                                         *)
(* Every request runs in its own ORM session.  A session reads committed   *)
(* rows, keeps the values it loaded until its next commit (which expires   *)
(* them), holds its own inserts and updates pending, and makes them        *)
(* visible to the other sessions in one step at commit.  An UPDATE writes  *)
(* only the columns whose value differs from the value the session loaded. *)
(* Each action below is one such database interaction of a handler: the    *)
(* reads of a request and its writes are separate steps, so the requests   *)
(* of two workers interleave between them.                                 *)
(***************************************************************************)
EXTENDS Integers, Sequences, FiniteSets, TLC

(***************************************************************************)
(* Bounds and program constants                                            *)
(***************************************************************************)
\* number of non-admin participants that exist (setup() creates 5)
NPlayers == 3
\* longest answer / answer key drawn for the text-grading function
MaxStrLen == 2
\* gunicorn -w 2: requests that can be in flight at once
Workers == 2
\* requests explored that begin while another request is in flight
MaxRaces == 1
\* most unassigned participants a team formation is run on
MaxUsers == 12
\* most routes a team formation is run on
MaxRoutes == 3
\* lists up to this length are shuffled into every order, longer ones into a few
MaxShuffle == 4

\* route steps the admin adds before the model stops adding
MaxSteps == 3

\* the largest step_index the admin enters
MaxStepIndex == 1
\* participants the admin adds after setup() before the model stops adding
MaxLate == 1
\* hints_used < 3
MaxHints == 3
\* penalty = hints_used * 2
HintPenalty == 2
\* chunk_size = 4
chunk_size == 4
\* len(chunks[-1]) < 3
MinTeamSize == 3

\* SQL NULL / Python None for an id column
NoId == 0
\* Python None for a string column
NoneStr == <<"<None>">>
\* "proof_file" not in request.files
NoFile == <<"<no proof_file>">>

Max(a, b) == IF a >= b THEN a ELSE b

(***************************************************************************)
(* Strings are sequences of characters: str.strip() and str.lower()        *)
(***************************************************************************)
IsSpace(c) == c \in {" ", "\n", "\t"}

LowerChar(c) ==
    CASE c = "A" -> "a"
      [] c = "B" -> "b"
      [] c = "W" -> "w"
      [] c = "R" -> "r"
      [] c = "O" -> "o"
      [] c = "N" -> "n"
      [] c = "G" -> "g"
      [] OTHER -> c

Lower(s) == [i \in 1..Len(s) |-> LowerChar(s[i])]

RECURSIVE LStrip(_)
LStrip(s) == IF s # <<>> /\ IsSpace(Head(s)) THEN LStrip(Tail(s)) ELSE s

RECURSIVE RStrip(_)
RStrip(s) ==
    IF s # <<>> /\ IsSpace(s[Len(s)]) THEN RStrip(SubSeq(s, 1, Len(s) - 1)) ELSE s

Strip(s) == RStrip(LStrip(s))

\* (x or ""): None and the empty string both give ""
OrEmpty(s) == IF s = NoneStr THEN <<>> ELSE s

\* submit_proof: answer = request.form.get("proof_text", "").strip().lower()
NormAnswer(text) == Lower(Strip(text))

\* submit_proof: correct = (poi.answer_key or "").strip().lower()
NormKey(key) == Lower(Strip(OrEmpty(key)))

\* a mis-grading that compares without lower-casing the answer
TextAcceptedCaseSensitive(text, key) ==
    NormKey(key) # <<>> /\ Strip(text) = NormKey(key)

\* submit_proof: if correct and answer == correct
TextAccepted(text, key) ==
    NormKey(key) # <<>> /\ NormAnswer(text) = NormKey(key)

(***************************************************************************)
(* File names are sequences of tokens: a run of letters, ".", "/" or " "   *)
(***************************************************************************)
ALLOWED_EXTS == {"jpg", "jpeg", "png", "webp"}

LowerWord(w) ==
    CASE w = "JPG" -> "jpg"
      [] w = "PNG" -> "png"
      [] OTHER -> w

\* "_".join(filename.split()) after the path separators became spaces
RECURSIVE JoinWords(_)
JoinWords(s) ==
    IF s = <<>> THEN <<>>
    ELSE IF Head(s) \in {" ", "/"}
         THEN IF Tail(s) # <<>> /\ Head(Tail(s)) \in {" ", "/"}
              THEN JoinWords(Tail(s))
              ELSE <<"_">> \o JoinWords(Tail(s))
         ELSE <<Head(s)>> \o JoinWords(Tail(s))

RECURSIVE LStripSet(_, _)
LStripSet(s, cs) == IF s # <<>> /\ Head(s) \in cs THEN LStripSet(Tail(s), cs) ELSE s

RECURSIVE RStripSet(_, _)
RStripSet(s, cs) ==
    IF s # <<>> /\ s[Len(s)] \in cs
    THEN RStripSet(SubSeq(s, 1, Len(s) - 1), cs)
    ELSE s

\* werkzeug.utils.secure_filename: separators to "_", then strip("._")
secure_filename(f) ==
    LET words == JoinWords(RStripSet(LStripSet(f, {" ", "/"}), {" ", "/"}))
    IN  RStripSet(LStripSet(words, {".", "_"}), {".", "_"})

\* index of the last "." of a name, 0 when there is none
LastDot(name) ==
    LET dots == {i \in 1..Len(name) : name[i] = "."}
    IN  IF dots = {} THEN 0 ELSE CHOOSE i \in dots : \A j \in dots : j <= i

\* Path(name).suffix.lower(), without its leading dot; <<>> when there is none
SuffixLower(name) ==
    LET i == LastDot(name)
    IN  IF 1 < i /\ i < Len(name)
        THEN [k \in 1..(Len(name) - i) |-> LowerWord(name[i + k])]
        ELSE <<>>

\* a validation that lets any suffix through
allowed_image_filename_any(name) == SuffixLower(name) # <<>>

\* allowed_image_filename: ext in ALLOWED_EXTS
allowed_image_filename(name) ==
    LET ext == SuffixLower(name)
    IN  Len(ext) = 1 /\ ext[1] \in ALLOWED_EXTS

\* what submit_proof's photo branch does with the upload: the flashed error, or "ok"
PhotoCheck(file) ==
    IF file = NoFile THEN "No file uploaded"
    ELSE IF file = <<>> THEN "No file selected"
    ELSE IF secure_filename(file) = <<>> THEN "Invalid filename"
    ELSE IF ~allowed_image_filename(secure_filename(file))
         THEN "Unsupported file type"
    ELSE "ok"

\* unique = f"team{team.id}_poi{poi.id}_{timestamp}{ext}" (the clock is not modelled)
UniqueName(t, p, file) ==
    <<"team", ToString(t), "_poi", ToString(p), ".">> \o SuffixLower(secure_filename(file))

(***************************************************************************)
(* The catalog: POI, Route and RouteStep rows (ids are row positions)      *)
(***************************************************************************)
Key1410 == <<"1", "4", "1", "0">>

POI(type, key, pts) == [completion_type |-> type, answer_key |-> key, points |-> pts]

RouteStep(r, p, i) == [route_id |-> r, poi_id |-> p, step_index |-> i]

\* setup(): the three sample POIs
SamplePois ==
    << POI("photo", NoneStr, 10), POI("text", Key1410, 10), POI("photo", NoneStr, 12) >>

\* POIs an admin can create: few points, a key stored with blanks and capitals,
\* a text POI created without an answer
CheapPois ==
    << POI("photo", NoneStr, 3), POI("text", <<" ", "A">>, 5), POI("text", NoneStr, 0) >>

\* catalogs the admin forms can build before the teams are generated; the
\* first is the one setup() builds, cut to its first two steps per route
Catalogs ==
    { [pois |-> SamplePois, routes |-> <<1, 2>>,
       steps |-> << RouteStep(1, 1, 0), RouteStep(1, 2, 1),
                    RouteStep(2, 2, 0), RouteStep(2, 3, 1) >>],
      \* few points; steps entered out of order and with a gap in the indices
      [pois |-> CheapPois, routes |-> <<1, 2>>,
       steps |-> << RouteStep(1, 2, 7), RouteStep(1, 1, 2), RouteStep(2, 3, 0) >>],
      \* a route without steps
      [pois |-> SamplePois, routes |-> <<1>>, steps |-> << >>],
      \* a route that binds the same POI at two steps
      [pois |-> SamplePois, routes |-> <<1>>,
       steps |-> << RouteStep(1, 1, 0), RouteStep(1, 1, 1) >>],
      \* a text POI nobody can answer
      [pois |-> CheapPois, routes |-> <<1>>,
       steps |-> << RouteStep(1, 1, 0), RouteStep(1, 3, 1) >>] }

(***************************************************************************)
(* Requests                                                                *)
(***************************************************************************)
Procs == 1..Workers

\* user 1 is ADMIN (setup()); the others are the participants
Users == 1..(NPlayers + 1)

\* the session's user_id; 0 is a visitor who is not logged in
Sessions == 0..(NPlayers + 1)

\* uploads: none, no name, names secure_filename empties or cuts, image and other suffixes
Files ==
    { NoFile, <<>>, <<".", ".">>, <<"photo">>, <<".", "jpg">>,
      <<"photo", ".", "jpg">>, <<"/", "photo", ".", "JPG">>,
      <<"photo", ".", "gif">>, <<"photo", ".", "jpg", ".", "exe">> }

Answers ==
    { <<>>, Key1410, <<" ", "1", "4", "1", "0", "\n">>, <<"1", "4", "1", "1">>,
      <<"W", "R", "O", "N", "G">>, <<"a">>, <<"A", " ">> }

\* the forms sent for a POI: an upload for a photo POI, an answer for a text POI
\* (the field the POI's mode does not read is left out)
Forms(poi) ==
    IF poi.completion_type = "photo"
    THEN [file : Files, text : {<<>>}]
    ELSE [file : {NoFile}, text : Answers]

NoForm == [file |-> NoFile, text |-> <<>>]

NoRow ==
    [name |-> 0, score |-> 0, route_id |-> NoId, route_step_index |-> 0,
     current_poi_id |-> NoId, is_finished |-> FALSE]

\* no answer is being graded
NoGrading == [text |-> <<>>, key |-> NoneStr, verdict |-> "none"]

\* a worker that handles no request
IdleReq ==
    [pc |-> "idle", team |-> NoId, poi |-> NoId, form |-> NoForm,
     prog |-> 0, hints |-> -1, lazy |-> FALSE, row |-> NoRow,
     chunks |-> << >>, route_list |-> << >>, count |-> 0, i |-> 0,
     step |-> RouteStep(NoId, NoId, 0)]

VARIABLES
    users,        \* User rows: [is_admin, team_id]
    teams,        \* Team rows
    pois,         \* POI rows
    routes,       \* Route ids, ascending
    steps,        \* RouteStep rows
    progress,     \* TeamPOIProgress rows
    submissions,  \* Submission rows
    awards,       \* the points complete_current_poi returned, per team and POI
    req,          \* per worker: where its handler stands, and its session
    races,        \* requests begun so far while another one was in flight
    grading       \* one text answer, one answer key, and submit_proof's verdict on them

vars ==
    <<users, teams, pois, routes, steps, progress, submissions, awards, req, races,
      grading>>

db == <<users, teams, pois, routes, steps, progress, submissions>>

catalog == <<pois, routes, steps>>

(***************************************************************************)
(* Rows and queries                                                        *)
(***************************************************************************)
User(admin, t) == [is_admin |-> admin, team_id |-> t]

Team(nm, r) ==
    [name |-> nm, score |-> 0, route_id |-> r, route_step_index |-> 0,
     current_poi_id |-> NoId, is_finished |-> FALSE]

TeamPOIProgress(t, p, st) ==
    [team_id |-> t, poi_id |-> p, status |-> st, hints_used |-> 0]

\* a Submission that does not record its POI
SubmissionWithoutPoi(t, p, ty, c) ==
    [team_id |-> t, poi_id |-> NoId, type |-> ty, content |-> c, status |-> "approved"]

Submission(t, p, ty, c) ==
    [team_id |-> t, poi_id |-> p, type |-> ty, content |-> c, status |-> "approved"]

\* a lookup by POI alone: the first record of the POI, whatever its team
FirstProgressAnyTeam(prg, t, p) ==
    LET hit == {k \in 1..Len(prg) : prg[k].poi_id = p}
    IN  IF hit = {} THEN 0 ELSE CHOOSE k \in hit : \A j \in hit : k <= j

\* a lookup by team alone: the first record of the team, whatever its POI
FirstProgressAnyPoi(prg, t, p) ==
    LET hit == {k \in 1..Len(prg) : prg[k].team_id = t}
    IN  IF hit = {} THEN 0 ELSE CHOOSE k \in hit : \A j \in hit : k <= j

\* TeamPOIProgress.query.filter_by(team_id=, poi_id=).first(): the row's id, 0 for None
FirstProgress(prg, t, p) ==
    LET hit == {k \in 1..Len(prg) : prg[k].team_id = t /\ prg[k].poi_id = p}
    IN  IF hit = {} THEN 0 ELSE CHOOSE k \in hit : \A j \in hit : k <= j

\* an ordering by id, the order the steps were entered in
RECURSIVE OrderByInsertion(_, _)
OrderByInsertion(stp, ids) ==
    IF ids = {} THEN << >>
    ELSE LET m == CHOOSE k \in ids : \A j \in ids : k <= j
         IN  <<stp[m]>> \o OrderByInsertion(stp, ids \ {m})

\* .order_by(RouteStep.step_index.asc()): ascending step_index, then id
RECURSIVE OrderByStepIndex(_, _)
OrderByStepIndex(stp, ids) ==
    IF ids = {} THEN << >>
    ELSE LET m == CHOOSE k \in ids : \A j \in ids :
                      \/ stp[k].step_index < stp[j].step_index
                      \/ stp[k].step_index = stp[j].step_index /\ k <= j
         IN  <<stp[m]>> \o OrderByStepIndex(stp, ids \ {m})

\* RouteStep.query.filter_by(route_id=).order_by(step_index).all()
StepsOf(stp, r) ==
    OrderByStepIndex(stp, {k \in 1..Len(stp) : stp[k].route_id = r})

\* a decision that leaves the finished flag down on an exhausted route
NextOfNeverFinished(row, stp) ==
    IF row.route_id = NoId \/ row.route_step_index >= Len(StepsOf(stp, row.route_id))
    THEN [current_poi_id |-> NoId, is_finished |-> FALSE]
    ELSE [current_poi_id |-> StepsOf(stp, row.route_id)[row.route_step_index + 1].poi_id,
          is_finished |-> FALSE]

\* a decision that leaves a finished team on the POI of its last step
NextOfFinishedKeepsPoi(row, stp) ==
    IF row.route_id = NoId
    THEN [current_poi_id |-> NoId, is_finished |-> FALSE]
    ELSE IF row.route_step_index >= Len(StepsOf(stp, row.route_id))
    THEN [current_poi_id |->
             IF StepsOf(stp, row.route_id) = << >> THEN NoId
             ELSE StepsOf(stp, row.route_id)[Len(StepsOf(stp, row.route_id))].poi_id,
          is_finished |-> TRUE]
    ELSE [current_poi_id |-> StepsOf(stp, row.route_id)[row.route_step_index + 1].poi_id,
          is_finished |-> FALSE]

\* a decision that sends a finished team back to the POI of its first step
NextOfFinishedRestarts(row, stp) ==
    IF row.route_id = NoId
    THEN [current_poi_id |-> NoId, is_finished |-> FALSE]
    ELSE IF row.route_step_index >= Len(StepsOf(stp, row.route_id))
    THEN [current_poi_id |->
             IF StepsOf(stp, row.route_id) = << >> THEN NoId
             ELSE StepsOf(stp, row.route_id)[1].poi_id,
          is_finished |-> TRUE]
    ELSE [current_poi_id |-> StepsOf(stp, row.route_id)[row.route_step_index + 1].poi_id,
          is_finished |-> FALSE]

\* a decision that forgets the step index and restarts the route
NextOfFirstStep(row, stp) ==
    IF row.route_id = NoId
    THEN [current_poi_id |-> NoId, is_finished |-> FALSE]
    ELSE IF row.route_step_index >= Len(StepsOf(stp, row.route_id))
    THEN [current_poi_id |-> NoId, is_finished |-> TRUE]
    ELSE [current_poi_id |-> StepsOf(stp, row.route_id)[1].poi_id,
          is_finished |-> FALSE]

\* assign_next_poi's decision for a team row: the new current POI and finished flag
NextOf(row, stp) ==
    IF row.route_id = NoId
    THEN [current_poi_id |-> NoId, is_finished |-> FALSE]
    ELSE IF row.route_step_index >= Len(StepsOf(stp, row.route_id))
    THEN [current_poi_id |-> NoId, is_finished |-> TRUE]
    ELSE [current_poi_id |-> StepsOf(stp, row.route_id)[row.route_step_index + 1].poi_id,
          is_finished |-> FALSE]

\* a lookup that never finds the record
ExistingNever(prg, t, p) == FALSE

\* assign_next_poi: existing = TeamPOIProgress.query.filter_by(...).first()
Existing(prg, t, p) == FirstProgress(prg, t, p) # 0

\* an assignment that sets the current POI and adds no progress record
assign_next_poi_unrecorded(tms, prg, stp, t) ==
    [teams |-> [tms EXCEPT ![t].current_poi_id = NextOf(tms[t], stp).current_poi_id,
                           ![t].is_finished = NextOf(tms[t], stp).is_finished],
     progress |-> prg]

\* assign_next_poi(team) run by itself, on the rows its session sees
assign_next_poi(tms, prg, stp, t) ==
    LET nx == NextOf(tms[t], stp)
    IN  [teams |-> [tms EXCEPT ![t].current_poi_id = nx.current_poi_id,
                               ![t].is_finished = nx.is_finished],
         progress |-> IF nx.current_poi_id # NoId /\ ~Existing(prg, t, nx.current_poi_id)
                      THEN Append(prg, TeamPOIProgress(t, nx.current_poi_id, "assigned"))
                      ELSE prg]

\* an award without the floor at zero
AwardUnclamped(pts, hints) == pts - hints * HintPenalty

\* complete_current_poi: points = max(0, (poi.points or 0) - penalty)
Award(pts, hints) == Max(0, pts - hints * HintPenalty)

\* an UPDATE that leaves the score column for a later commit
FlushWithoutScore(committed, loaded, new) ==
    [name |-> committed.name,
     route_id |-> committed.route_id,
     score |-> committed.score,
     route_step_index |->
        IF new.route_step_index # loaded.route_step_index
        THEN new.route_step_index ELSE committed.route_step_index,
     current_poi_id |->
        IF new.current_poi_id # loaded.current_poi_id
        THEN new.current_poi_id ELSE committed.current_poi_id,
     is_finished |->
        IF new.is_finished # loaded.is_finished
        THEN new.is_finished ELSE committed.is_finished]

\* the UPDATE a session flushes: the columns it changed, over the committed row
Flush(committed, loaded, new) ==
    [name |-> committed.name,
     route_id |-> committed.route_id,
     score |-> IF new.score # loaded.score THEN new.score ELSE committed.score,
     route_step_index |->
        IF new.route_step_index # loaded.route_step_index
        THEN new.route_step_index ELSE committed.route_step_index,
     current_poi_id |->
        IF new.current_poi_id # loaded.current_poi_id
        THEN new.current_poi_id ELSE committed.current_poi_id,
     is_finished |->
        IF new.is_finished # loaded.is_finished
        THEN new.is_finished ELSE committed.is_finished]

Min(a, b) == IF a <= b THEN a ELSE b

\* chunks = [ungrouped[i:i + chunk_size] for i in range(0, len(ungrouped), chunk_size)]
RawChunks(list) ==
    [k \in 1..((Len(list) + chunk_size - 1) \div chunk_size) |->
        SubSeq(list, chunk_size * (k - 1) + 1, Min(chunk_size * k, Len(list)))]

\* chunks whose small last one is left as it is
ChunksUnmerged(list) == RawChunks(list)

\* chunks whose last one is merged also when it has three members
ChunksMergeThree(list) ==
    LET raw == RawChunks(list)
        n == Len(raw)
    IN  IF n > 1 /\ Len(raw[n]) <= MinTeamSize
        THEN [k \in 1..(n - 1) |-> IF k = n - 1 THEN raw[k] \o raw[n] ELSE raw[k]]
        ELSE raw

\* chunks whose last one is merged only when it has a single member
ChunksMergeOne(list) ==
    LET raw == RawChunks(list)
        n == Len(raw)
    IN  IF n > 1 /\ Len(raw[n]) < MinTeamSize - 1
        THEN [k \in 1..(n - 1) |-> IF k = n - 1 THEN raw[k] \o raw[n] ELSE raw[k]]
        ELSE raw

\* admin_generate_teams: the chunks, the last one merged when it is too small
Chunks(list) ==
    LET raw == RawChunks(list)
        n == Len(raw)
    IN  IF n > 1 /\ Len(raw[n]) < MinTeamSize
        THEN [k \in 1..(n - 1) |-> IF k = n - 1 THEN raw[k] \o raw[n] ELSE raw[k]]
        ELSE raw

\* the members of S in ascending order
RECURSIVE Ascending(_)
Ascending(S) ==
    IF S = {} THEN << >>
    ELSE LET m == CHOOSE x \in S : \A y \in S : x <= y
         IN  <<m>> \o Ascending(S \ {m})

Reversed(seq) == [k \in 1..Len(seq) |-> seq[Len(seq) + 1 - k]]

\* the entries at the odd positions, then the entries at the even positions
OddsThenEvens(seq) ==
    LET n == Len(seq)
        h == (n + 1) \div 2
    IN  [k \in 1..n |-> IF k <= h THEN seq[2 * k - 1] ELSE seq[2 * (k - h)]]

\* random.shuffle: every order of the list; of a long list, three of its orders
Shuffles(S) ==
    IF Cardinality(S) <= MaxShuffle
    THEN {f \in [1..Cardinality(S) -> S] :
             \A a, b \in 1..Cardinality(S) : f[a] = f[b] => a = b}
    ELSE {Ascending(S), Reversed(Ascending(S)), OddsThenEvens(Ascending(S))}

Elems(seq) == {seq[k] : k \in 1..Len(seq)}

(***************************************************************************)
(* Init: the database after setup() and the admin's catalog entry          *)
(***************************************************************************)
Init ==
    /\ users = [u \in Users |-> User(u = 1, NoId)]
    /\ teams = << >>
    /\ \E c \in Catalogs : pois = c.pois /\ routes = c.routes /\ steps = c.steps
    /\ progress = << >>
    /\ submissions = << >>
    /\ awards = {}
    /\ req = [p \in Procs |-> IdleReq]
    /\ races = 0
    /\ grading = NoGrading

\* every other worker is idle
Alone(p) == \A q \in Procs \ {p} : req[q].pc = "idle"

\* worker p takes a request: it counts as a race when another one is in flight
Begins(p) ==
    /\ req[p].pc = "idle"
    /\ Alone(p) \/ races < MaxRaces
    /\ races' = IF Alone(p) \/ req' = req THEN races ELSE races + 1

\* the session's user has a team with a current POI (request_hint, submit_proof)
CanAct(u) ==
    /\ u # 0
    /\ ~users[u].is_admin
    /\ users[u].team_id # NoId
    /\ teams[users[u].team_id].current_poi_id # NoId

(***************************************************************************)
(* request_hint                                                            *)
(***************************************************************************)
\* lines 870-879: resolve the user, the team and its current POI
request_hint_begin(p) ==
    /\ \E u \in Sessions :
          IF CanAct(u)
          THEN req' = [req EXCEPT ![p] =
                         [IdleReq EXCEPT !.pc = "hint_lookup",
                                         !.team = users[u].team_id,
                                         !.poi = teams[users[u].team_id].current_poi_id]]
          ELSE req' = [req EXCEPT ![p] = [IdleReq EXCEPT !.pc = "refused"]]
    /\ Begins(p)
    /\ UNCHANGED <<db, awards, grading>>

\* lines 871, 875, 879, 898, 902 and 907: redirect without touching the database
request_refuse(p) ==
    /\ req[p].pc = "refused"
    /\ req' = [req EXCEPT ![p] = IdleReq]
    /\ UNCHANGED <<db, awards, races, grading>>

\* lines 881-885: look the progress record up, create and commit it when missing
request_hint_lookup(p) ==
    LET r == req[p]
        k == FirstProgress(progress, r.team, r.poi)
    IN  /\ r.pc = "hint_lookup"
        /\ IF k = 0
           THEN /\ progress' = Append(progress, TeamPOIProgress(r.team, r.poi, "assigned"))
                /\ req' = [req EXCEPT ![p].pc = "hint_incr",
                                      ![p].prog = Len(progress) + 1,
                                      ![p].hints = -1]
           ELSE /\ progress' = progress
                /\ req' = [req EXCEPT ![p].pc = "hint_incr",
                                      ![p].prog = k,
                                      ![p].hints = progress[k].hints_used]
        /\ UNCHANGED <<users, teams, catalog, submissions, awards, races, grading>>

\* the hint count a request_hint writes, without the cap
HintCountUncapped(h) == h + 1

\* lines 887-888: if progress.hints_used < 3: progress.hints_used += 1
HintCount(h) == IF h < MaxHints THEN h + 1 ELSE h

\* lines 887-892: count the hint and commit; the record's hints_used is the value
\* the lookup loaded, or the committed one when the commit of a new record expired it
request_hint_incr(p) ==
    LET r == req[p]
        h == IF r.hints = -1 THEN progress[r.prog].hints_used ELSE r.hints
    IN  /\ r.pc = "hint_incr"
        /\ progress' = [progress EXCEPT ![r.prog].hints_used = HintCount(h)]
        /\ req' = [req EXCEPT ![p] = IdleReq]
        /\ UNCHANGED <<users, teams, catalog, submissions, awards, races, grading>>

(***************************************************************************)
(* submit_proof and complete_current_poi                                   *)
(***************************************************************************)
\* lines 897-907: resolve the user, the team and poi = team.current_poi
submit_proof_begin(p) ==
    /\ \E u \in Sessions :
          IF CanAct(u)
          THEN \E f \in Forms(pois[teams[users[u].team_id].current_poi_id]) :
                  req' = [req EXCEPT ![p] =
                            [IdleReq EXCEPT !.pc = "submit_validate",
                                            !.team = users[u].team_id,
                                            !.poi = teams[users[u].team_id].current_poi_id,
                                            !.form = f]]
          ELSE req' = [req EXCEPT ![p] = [IdleReq EXCEPT !.pc = "refused"]]
    /\ Begins(p)
    /\ UNCHANGED <<db, awards, grading>>

\* submit_proof accepts the form for the POI
Accepted(poi, form) ==
    IF poi.completion_type = "photo"
    THEN PhotoCheck(form.file) = "ok"
    ELSE TextAccepted(form.text, poi.answer_key)

\* lines 909-956: validate the proof; record and commit the Submission, or reject
submit_proof_validate(p) ==
    LET r == req[p]
        poi == pois[r.poi]
    IN  /\ r.pc = "submit_validate"
        /\ IF Accepted(poi, r.form)
           THEN /\ submissions' = Append(submissions,
                      IF poi.completion_type = "photo"
                      THEN Submission(r.team, r.poi, "photo",
                                      UniqueName(r.team, r.poi, r.form.file))
                      ELSE Submission(r.team, r.poi, "text", NormAnswer(r.form.text)))
                /\ req' = [req EXCEPT ![p].pc = "complete_lookup", ![p].form = NoForm]
           ELSE /\ submissions' = submissions
                /\ req' = [req EXCEPT ![p] = IdleReq]
        /\ UNCHANGED <<users, teams, catalog, progress, awards, races, grading>>

\* lines 663-667: team.id reloads the team row the Submission's commit expired,
\* then the progress record is fetched, or one is added to the session
complete_current_poi_lookup(p) ==
    LET r == req[p]
        k == FirstProgress(progress, r.team, r.poi)
    IN  /\ r.pc = "complete_lookup"
        /\ req' = [req EXCEPT ![p].pc = "commit",
                              ![p].row = teams[r.team],
                              ![p].prog = k,
                              ![p].lazy = (k = 0),
                              ![p].hints = IF k = 0 THEN 0 ELSE progress[k].hints_used]
        /\ UNCHANGED <<db, awards, races, grading>>

\* lines 669-680 with assign_next_poi, lines 626-655: mark the record completed,
\* compute the points from the values the lookup loaded, add to the score and the
\* step index, pick the next POI, add its progress record if none exists, and
\* write the changed columns; the first query of assign_next_poi flushes the
\* UPDATEs, which holds the rows until the commit, so the rest is one step.
\* complete_current_poi returns points.
complete_current_poi_commit(p) ==
    LET r == req[p]
        pts == Award(pois[r.poi].points, r.hints)
        scored == [r.row EXCEPT !.score = r.row.score + pts,
                                !.route_step_index = r.row.route_step_index + 1]
        nx == NextOf(scored, steps)
        new == [scored EXCEPT !.current_poi_id = nx.current_poi_id,
                              !.is_finished = nx.is_finished]
        done == IF r.prog # 0
                THEN [progress EXCEPT ![r.prog].status = "completed"]
                ELSE progress
        made == IF r.lazy
                THEN Append(done, [TeamPOIProgress(r.team, r.poi, "completed")
                                      EXCEPT !.hints_used = 0])
                ELSE done
    IN  /\ r.pc = "commit"
        /\ progress' = IF /\ nx.current_poi_id # NoId
                          /\ ~Existing(made, r.team, nx.current_poi_id)
                       THEN Append(made, TeamPOIProgress(r.team, nx.current_poi_id,
                                                         "assigned"))
                       ELSE made
        /\ teams' = [teams EXCEPT ![r.team] = Flush(teams[r.team], r.row, new)]
        /\ awards' = awards \cup {[team_id |-> r.team, poi_id |-> r.poi,
                                     points |-> pts]}
        /\ req' = [req EXCEPT ![p] = IdleReq]
        /\ UNCHANGED <<users, catalog, submissions, races, grading>>

(***************************************************************************)
(* admin_generate_teams                                                    *)
(***************************************************************************)
\* a selection that takes every non-admin user, in a team or not
UngroupedAnyone == {u \in DOMAIN users : ~users[u].is_admin}

\* ungrouped = [u for u in users if not u.team_id], users the non-admin ones
Ungrouped == {u \in DOMAIN users : ~users[u].is_admin /\ users[u].team_id = NoId}

\* a check that lets a run start with nobody to assign
FormationCheckAnyUsers(ungrouped, rts) ==
    IF rts = << >> /\ ungrouped # {} THEN "gen_no_routes" ELSE "gen_create"

\* lines 992-1000: where the handler goes after its two checks
FormationCheck(ungrouped, rts) ==
    IF ungrouped = {} THEN "gen_no_users"
    ELSE IF rts = << >> THEN "gen_no_routes"
    ELSE "gen_create"

\* lines 988-1013: the checks, the shuffle, the chunks and the team count
admin_generate_teams_begin(p) ==
    /\ \E u \in Sessions :
          IF u \in DOMAIN users /\ users[u].is_admin
          THEN IF FormationCheck(Ungrouped, routes) = "gen_create"
               THEN \E order \in Shuffles(Ungrouped) :
                       req' = [req EXCEPT ![p] =
                                 [IdleReq EXCEPT !.pc = "gen_create",
                                                 !.chunks = Chunks(order),
                                                 !.route_list = routes,
                                                 !.count = Len(teams),
                                                 !.i = 1]]
               ELSE req' = [req EXCEPT ![p] =
                              [IdleReq EXCEPT !.pc = FormationCheck(Ungrouped, routes)]]
          ELSE req' = req
    /\ Begins(p)
    /\ UNCHANGED <<db, awards, grading>>

\* lines 993-994 and 999-1000: flash the error and redirect to the dashboard
admin_generate_teams_refuse(p) ==
    /\ req[p].pc \in {"gen_no_users", "gen_no_routes"}
    /\ req' = [req EXCEPT ![p] = IdleReq]
    /\ UNCHANGED <<db, awards, races, grading>>

\* a dealing that puts every team on the first route
RoundRobinFirst(route_list, i) == route_list[1]

\* line 1019: assigned_route = routes[i % len(routes)], i counted from 0
RoundRobin(route_list, i) == route_list[(i % Len(route_list)) + 1]

\* lines 1016-1024: create the i-th team on its round-robin route and commit it
admin_generate_teams_create(p) ==
    LET r == req[p]
        assigned_route == RoundRobin(r.route_list, r.i - 1)
    IN  /\ r.pc = "gen_create"
        /\ teams' = Append(teams, Team(r.count + r.i, assigned_route))
        /\ req' = [req EXCEPT ![p].pc = "gen_assign", ![p].team = Len(teams) + 1]
        /\ UNCHANGED <<users, catalog, progress, submissions, awards, races, grading>>

\* lines 1026-1031: attach the group's users, seed the first POI, commit
admin_generate_teams_assign(p) ==
    LET r == req[p]
        group == Elems(r.chunks[r.i])
        seeded == assign_next_poi(teams, progress, steps, r.team)
    IN  /\ r.pc = "gen_assign"
        /\ users' = [u \in DOMAIN users |->
                        IF u \in group THEN [users[u] EXCEPT !.team_id = r.team]
                        ELSE users[u]]
        /\ teams' = seeded.teams
        /\ progress' = seeded.progress
        /\ req' = IF r.i = Len(r.chunks)
                  THEN [req EXCEPT ![p] = IdleReq]
                  ELSE [req EXCEPT ![p].pc = "gen_create", ![p].i = r.i + 1,
                                   ![p].team = NoId]
        /\ UNCHANGED <<catalog, submissions, awards, races, grading>>

(***************************************************************************)
(* admin_create_route_step                                                 *)
(***************************************************************************)
\* the route, POI and step_index the admin's form can carry
StepForms == [route_id : Elems(routes), poi_id : DOMAIN pois, step_index : 0..MaxStepIndex]

\* line 1090: exists = RouteStep.query.filter_by(route_id=, step_index=).first()
StepExists(stp, f) ==
    \E k \in 1..Len(stp) :
        stp[k].route_id = f.route_id /\ stp[k].step_index = f.step_index

\* lines 1079-1093: the admin posts the form; the step is looked up
admin_create_route_step_begin(p) ==
    /\ Len(steps) < MaxSteps
    /\ \E u \in Sessions :
          IF u \in DOMAIN users /\ users[u].is_admin
          THEN \E f \in StepForms :
                  req' = [req EXCEPT ![p] =
                            [IdleReq EXCEPT !.pc = IF StepExists(steps, f)
                                                   THEN "step_exists" ELSE "step_add",
                                            !.step = f]]
          ELSE req' = req
    /\ Begins(p)
    /\ UNCHANGED <<db, awards, grading>>

\* lines 1091-1093: flash "already used" and redirect to the form
admin_create_route_step_refuse(p) ==
    /\ req[p].pc = "step_exists"
    /\ req' = [req EXCEPT ![p] = IdleReq]
    /\ UNCHANGED <<db, awards, races, grading>>

\* lines 1095-1098: add the RouteStep and commit
admin_create_route_step_add(p) ==
    /\ req[p].pc = "step_add"
    /\ steps' = Append(steps, req[p].step)
    /\ req' = [req EXCEPT ![p] = IdleReq]
    /\ UNCHANGED <<users, teams, pois, routes, progress, submissions, awards, races,
                   grading>>

(***************************************************************************)
(* admin_create_user                                                       *)
(***************************************************************************)
\* lines 1118-1120: User(code=code, name=...), is_admin False and no team by default
LateUser == User(FALSE, NoId)

\* lines 1111-1122: an admin posts a code no user has; the participant is added
\* and committed in one go (a code already taken changes nothing)
admin_create_user(p) ==
    /\ req[p].pc = "idle"
    /\ Len(users) < NPlayers + 1 + MaxLate
    /\ \E u \in Sessions : u \in DOMAIN users /\ users[u].is_admin
    /\ users' = Append(users, LateUser)
    /\ UNCHANGED <<teams, catalog, progress, submissions, awards, req, races, grading>>

(***************************************************************************)
(* Specifications                                                          *)
(***************************************************************************)
\* one database interaction of the request worker p handles
Handle(p) ==
    \/ request_hint_begin(p)
    \/ request_refuse(p)
    \/ request_hint_lookup(p)
    \/ request_hint_incr(p)
    \/ submit_proof_begin(p)
    \/ submit_proof_validate(p)
    \/ complete_current_poi_lookup(p)
    \/ complete_current_poi_commit(p)
    \/ admin_generate_teams_begin(p)
    \/ admin_generate_teams_refuse(p)
    \/ admin_generate_teams_create(p)
    \/ admin_generate_teams_assign(p)

\* no request is in flight
Quiescent == \A p \in Procs : req[p].pc = "idle"

\* the workers' requests interleave at every database interaction
Next == \E p \in Procs : Handle(p)

Spec == Init /\ [][Next]_vars

\* one request at a time, each handled from its first line to its last
NextSeq ==
    \E p \in Procs :
        \/ Alone(p) /\ request_hint_begin(p)
        \/ Alone(p) /\ request_refuse(p)
        \/ Alone(p) /\ request_hint_lookup(p)
        \/ Alone(p) /\ request_hint_incr(p)
        \/ Alone(p) /\ submit_proof_begin(p)
        \/ Alone(p) /\ submit_proof_validate(p)
        \/ Alone(p) /\ complete_current_poi_lookup(p)
        \/ Alone(p) /\ complete_current_poi_commit(p)
        \/ Alone(p) /\ admin_generate_teams_begin(p)
        \/ Alone(p) /\ admin_generate_teams_refuse(p)
        \/ Alone(p) /\ admin_generate_teams_create(p)
        \/ Alone(p) /\ admin_generate_teams_assign(p)

SpecSeq == Init /\ [][NextSeq]_vars

(***************************************************************************)
(* One request at a time, with progress: a worker runs the handler of the  *)
(* request it took to its last line (no handler waits for anything). No    *)
(* fairness is put on the grading of a proof: that accepted proofs keep    *)
(* arriving is the premise of the property checked under this              *)
(* specification, not a fact of scheduling.                                *)
(***************************************************************************)
\* worker p takes the next step of the request it is handling
Continue(p) ==
    /\ Alone(p)
    /\ \/ request_refuse(p)
       \/ request_hint_lookup(p)
       \/ request_hint_incr(p)
       \/ complete_current_poi_lookup(p)
       \/ complete_current_poi_commit(p)
       \/ admin_generate_teams_refuse(p)
       \/ admin_generate_teams_create(p)
       \/ admin_generate_teams_assign(p)

SpecLive ==
    /\ Init
    /\ [][NextSeq]_vars
    /\ WF_vars(\E p \in Procs : Continue(p))

(***************************************************************************)
(* Text grading by itself: every short answer against every short key      *)
(***************************************************************************)
Chars == {"a", "A", "b", " "}

Strings == UNION {[1..n -> Chars] : n \in 0..MaxStrLen}

InitGrade ==
    /\ users = [u \in Users |-> User(u = 1, NoId)]
    /\ teams = << >>
    /\ pois = SamplePois /\ routes = << >> /\ steps = << >>
    /\ progress = << >>
    /\ submissions = << >>
    /\ awards = {}
    /\ req = [p \in Procs |-> IdleReq]
    /\ races = 0
    /\ grading \in [text : Strings, key : Strings \cup {NoneStr}, verdict : {"none"}]

\* submit_proof, lines 945-956, on the answer and the key drawn
GradeText ==
    /\ grading.verdict = "none"
    /\ grading' = [grading EXCEPT !.verdict =
                      IF TextAccepted(grading.text, grading.key)
                      THEN "accepted" ELSE "rejected"]
    /\ UNCHANGED <<db, awards, req, races>>

SpecGrade == InitGrade /\ [][GradeText]_vars

(***************************************************************************)
(* Team formation by itself: any number of unassigned participants and of  *)
(* routes, one run after another                                           *)
(***************************************************************************)
\* a catalog of n routes, each with one step on one of the sample POIs
OneStepRoutes(n) == [r \in 1..n |-> RouteStep(r, ((r - 1) % 3) + 1, 0)]

InitTeams ==
    /\ \E n \in 0..MaxUsers : users = [u \in 1..(n + 1) |-> User(u = 1, NoId)]
    /\ teams = << >>
    /\ pois = SamplePois
    /\ \E n \in 0..MaxRoutes : routes = [r \in 1..n |-> r] /\ steps = OneStepRoutes(n)
    /\ progress = << >>
    /\ submissions = << >>
    /\ awards = {}
    /\ req = [p \in Procs |-> IdleReq]
    /\ races = 0
    /\ grading = NoGrading

NextTeams ==
    \E p \in Procs :
        \/ Alone(p) /\ admin_generate_teams_begin(p)
        \/ Alone(p) /\ admin_generate_teams_refuse(p)
        \/ Alone(p) /\ admin_generate_teams_create(p)
        \/ Alone(p) /\ admin_generate_teams_assign(p)

SpecTeams == InitTeams /\ [][NextTeams]_vars

(***************************************************************************)
(* The admin builds routes: two routes over two POIs, no step yet, and the *)
(* route-step form posted from two browser tabs or by two admins           *)
(***************************************************************************)
InitSteps ==
    /\ users = [u \in Users |-> User(u = 1, NoId)]
    /\ teams = << >>
    /\ pois = SubSeq(SamplePois, 1, 2) /\ routes = <<1, 2>> /\ steps = << >>
    /\ progress = << >>
    /\ submissions = << >>
    /\ awards = {}
    /\ req = [p \in Procs |-> IdleReq]
    /\ races = 0
    /\ grading = NoGrading

NextSteps ==
    \E p \in Procs :
        \/ admin_create_route_step_begin(p)
        \/ admin_create_route_step_refuse(p)
        \/ admin_create_route_step_add(p)

SpecSteps == InitSteps /\ [][NextSteps]_vars

(***************************************************************************)
(* Two teams at play: the state after two formation runs, the first over   *)
(* one participant and the second over the participants added since; both  *)
(* teams are on the first route (i = 0 in each run) and stand on its first *)
(* step. Their members' requests interleave.                               *)
(***************************************************************************)
\* catalogs whose first route has a single step, on a photo POI or on a text POI
ShortCatalogs ==
    { [pois |-> CheapPois, routes |-> <<1>>, steps |-> << RouteStep(1, 1, 0) >>],
      [pois |-> CheapPois, routes |-> <<1>>, steps |-> << RouteStep(1, 2, 0) >>] }

InitTwoTeams ==
    /\ users = [u \in Users |-> User(u = 1, IF u = 1 THEN NoId ELSE IF u = 2 THEN 1 ELSE 2)]
    /\ \E c \in ShortCatalogs : pois = c.pois /\ routes = c.routes /\ steps = c.steps
    /\ LET first == assign_next_poi(<<Team(1, routes[1]), Team(2, routes[1])>>,
                                    << >>, steps, 1)
           second == assign_next_poi(first.teams, first.progress, steps, 2)
       IN  teams = second.teams /\ progress = second.progress
    /\ submissions = << >>
    /\ awards = {}
    /\ req = [p \in Procs |-> IdleReq]
    /\ races = 0
    /\ grading = NoGrading

NextTwoTeams ==
    \E p \in Procs :
        \/ request_hint_begin(p)
        \/ request_refuse(p)
        \/ request_hint_lookup(p)
        \/ request_hint_incr(p)
        \/ submit_proof_begin(p)
        \/ submit_proof_validate(p)
        \/ complete_current_poi_lookup(p)
        \/ complete_current_poi_commit(p)

SpecTwoTeams == InitTwoTeams /\ [][NextTwoTeams]_vars

(***************************************************************************)
(* The game with latecomers: one request at a time, and the admin adds     *)
(* participants between the team formation runs                            *)
(***************************************************************************)
NextRerun ==
    \/ NextSeq
    \/ \E p \in Procs : Alone(p) /\ admin_create_user(p)

SpecRerun == Init /\ [][NextRerun]_vars

(***************************************************************************)
(* Claims                                                                  *)
(***************************************************************************)
TeamIds == 1..Len(teams)

\* the number of steps of the team's route
RouteLen(t) == Len(StepsOf(steps, teams[t].route_id))

\* C1: with the requests handled one at a time, after any sequence of team
\* formations, hint requests and submissions every team is finished exactly
\* when its route_step_index has reached the number of steps of its route, and
\* a finished team has no current POI.
C1_FinishedIffRouteDone ==
    Quiescent =>
        \A t \in TeamIds :
            /\ teams[t].is_finished <=> teams[t].route_step_index >= RouteLen(t)
            /\ teams[t].is_finished => teams[t].current_poi_id = NoId

\* a team that walked a route of two steps to its end
C1_Witness ==
    /\ Quiescent
    /\ \E t \in TeamIds :
          /\ teams[t].is_finished
          /\ RouteLen(t) = 2
          /\ teams[t].route_step_index = 2

\* the POIs of the team's route are pairwise distinct
DistinctPois(t) ==
    LET st == StepsOf(steps, teams[t].route_id)
    IN  \A a, b \in 1..Len(st) : st[a].poi_id = st[b].poi_id => a = b

\* the POIs the team has a completed progress record for
CompletedPois(t) ==
    {progress[k].poi_id : k \in {j \in 1..Len(progress) :
        progress[j].team_id = t /\ progress[j].status = "completed"}}

RECURSIVE SumPoints(_)
SumPoints(ps) ==
    IF ps = {} THEN 0
    ELSE LET x == CHOOSE y \in ps : TRUE
         IN  pois[x].points + SumPoints(ps \ {x})

\* C2: submissions for one team that are processed concurrently at the same
\* route step complete that step at most once: on a route of distinct POIs the
\* team's route_step_index never exceeds the number of POIs it has completed
\* (it advanced by 1 per step, not 2) and its score never exceeds the points of
\* the POIs it has completed (at most one award per step).
C2_StepCompletedOnce ==
    \A t \in TeamIds :
        DistinctPois(t) =>
            /\ teams[t].route_step_index <= Cardinality(CompletedPois(t))
            /\ teams[t].score <= SumPoints(CompletedPois(t))

\* worker p commits the completion it was handed
Completes(p) == req[p].pc = "commit" /\ req'[p].pc = "idle"

\* C3: a completion for a POI that is not the team's current POI when it is
\* committed (a stale or duplicate request) changes neither the team's score nor
\* its route_step_index.
C3_StaleCompletionNoEffect ==
    [][\A p \in Procs :
          (Completes(p) /\ teams[req[p].team].current_poi_id # req[p].poi) =>
              /\ teams'[req[p].team].score = teams[req[p].team].score
              /\ teams'[req[p].team].route_step_index =
                     teams[req[p].team].route_step_index]_vars

\* C4: with the requests handled one at a time, complete_current_poi adds
\* exactly max(0, poi.points - 2 * hints_used) to the team's score, hints_used
\* being the hint count of the (team, POI) progress record, and no step of any
\* operation decreases a team's score.
C4_AwardClampedScoreMonotone ==
    [][/\ \A t \in TeamIds : teams'[t].score >= teams[t].score
       /\ \A p \in Procs :
             Completes(p) =>
                 LET t == req[p].team
                     k == FirstProgress(progress, t, req[p].poi)
                     full == pois[req[p].poi].points - 2 * progress[k].hints_used
                 IN  /\ k # 0
                     /\ teams'[t].score =
                            teams[t].score + (IF full > 0 THEN full ELSE 0)]_vars

\* a completion whose hint penalty exceeded the POI's points was awarded 0
C4_Witness ==
    \E a \in awards :
        /\ a.points = 0
        /\ pois[a.poi_id].points > 0
        /\ teams[a.team_id].score = 0
        /\ teams[a.team_id].route_step_index = 1

\* the rows for (t, p) among the progress records prg
RowsFor(prg, t, p) == {k \in 1..Len(prg) : prg[k].team_id = t /\ prg[k].poi_id = p}

\* assign_next_poi called twice in a row on tms gives what one call gives, and
\* leaves at most one progress record for the team's current POI
CalledTwice(tms, t) ==
    LET once == assign_next_poi(tms, progress, steps, t)
        twice == assign_next_poi(once.teams, once.progress, steps, t)
    IN  /\ twice.teams[t].current_poi_id = once.teams[t].current_poi_id
        /\ twice.teams[t].is_finished = once.teams[t].is_finished
        /\ twice.progress = once.progress
        /\ Cardinality(RowsFor(twice.progress, t, once.teams[t].current_poi_id))
              = Cardinality(RowsFor(once.progress, t, once.teams[t].current_poi_id))

\* C5: assign_next_poi is idempotent. In every reachable state and for every
\* team, both on the committed rows (where admin_generate_teams calls it) and on
\* the rows with route_step_index raised by one (where complete_current_poi calls
\* it), a second call in a row, with no completion in between, leaves the current
\* POI, the finished flag and the progress records of the first call, and no
\* second progress record for the same (team, POI).
C5_AssignIdempotent ==
    \A t \in TeamIds :
        /\ CalledTwice(teams, t)
        /\ CalledTwice([teams EXCEPT ![t].route_step_index = @ + 1], t)

\* a team for which the first call creates the progress record of its next POI
C5_Witness ==
    \E t \in TeamIds :
        LET once == assign_next_poi([teams EXCEPT ![t].route_step_index = @ + 1],
                                    progress, steps, t)
        IN  /\ Len(once.progress) = Len(progress) + 1
            /\ once.teams[t].current_poi_id # NoId
            /\ teams[t].route_step_index = 0
            /\ teams[t].current_poi_id # NoId

\* the catalog of the worked example: route 1 is [photo 10 points, text 10 points]
IsExample ==
    /\ pois = SamplePois
    /\ StepsOf(steps, 1) = << RouteStep(1, 1, 0), RouteStep(1, 2, 1) >>

\* the worked example's team: one hint on the first step, none on the second
ExampleHints(t) ==
    /\ teams[t].route_id = 1
    /\ FirstProgress(progress, t, 1) # 0
    /\ progress[FirstProgress(progress, t, 1)].hints_used = 1
    /\ FirstProgress(progress, t, 2) # 0 =>
           progress[FirstProgress(progress, t, 2)].hints_used = 0

\* C6: with the requests handled one at a time, an accepted submission of a team
\* at step i of its route (steps in ascending step_index order) moves it to step
\* i+1 with the POI of that step as current POI, or, from the last step, to the
\* finished state with no current POI; on the route [photo 10, text 10] with one
\* hint on the first step the scores after the two accepted submissions are 8
\* and 18, and the team is finished.
C6_AcceptedSubmissionAdvances ==
    [][\A p \in Procs :
          Completes(p) =>
              LET t == req[p].team
                  i == teams[t].route_step_index
                  st == StepsOf(steps, teams[t].route_id)
              IN  /\ teams'[t].route_step_index = i + 1
                  /\ IF i + 1 < Len(st)
                     THEN /\ teams'[t].current_poi_id = st[i + 2].poi_id
                          /\ ~teams'[t].is_finished
                     ELSE /\ teams'[t].current_poi_id = NoId
                          /\ teams'[t].is_finished
                  /\ (IsExample /\ ExampleHints(t)) =>
                        /\ i = 0 => teams'[t].score = 8
                        /\ i = 1 => teams'[t].score = 18 /\ teams'[t].is_finished]_vars

\* the end of the worked example: score 18, finished, no current POI
C6_Witness ==
    /\ IsExample
    /\ Quiescent
    /\ \E t \in TeamIds :
          /\ ExampleHints(t)
          /\ teams[t].score = 18
          /\ teams[t].route_step_index = 2
          /\ teams[t].is_finished
          /\ teams[t].current_poi_id = NoId

\* worker p commits the hint count of its request_hint
CountsHint(p) == req[p].pc = "hint_incr" /\ req'[p].pc = "idle"

\* C7: with the requests handled one at a time, the hint count of every
\* progress record stays within 0..3 and never decreases, and a request_hint
\* raises the count of the record of the team's current POI by 1 while it is
\* below 3 and leaves it at 3 otherwise.
C7_HintsCappedMonotone ==
    [][/\ \A k \in 1..Len(progress) :
             /\ progress[k].hints_used \in 0..3
             /\ progress'[k].hints_used \in 0..3
             /\ progress'[k].hints_used >= progress[k].hints_used
       /\ \A p \in Procs :
             CountsHint(p) =>
                 LET t == req[p].team
                     k == FirstProgress(progress, t, teams[t].current_poi_id)
                 IN  /\ k # 0
                     /\ progress'[k].hints_used =
                            IF progress[k].hints_used < 3
                            THEN progress[k].hints_used + 1
                            ELSE 3]_vars

\* a hint request about to be counted on a record that already has 3 hints
C7_Witness ==
    \E p \in Procs :
        /\ req[p].pc = "hint_incr"
        /\ req[p].hints = 3
        /\ progress[req[p].prog].hints_used = 3

\* the contiguous pieces of s
Pieces(s) == {SubSeq(s, a, b) : a \in 1..(Len(s) + 1), b \in 0..Len(s)}

\* core is s without its leading and trailing blanks
TrimOf(s, core) ==
    /\ core = << >> \/ (~IsSpace(core[1]) /\ ~IsSpace(core[Len(core)]))
    /\ \E a \in 0..Len(s) :
          /\ a + Len(core) <= Len(s)
          /\ \A k \in 1..a : IsSpace(s[k])
          /\ \A k \in 1..Len(core) : s[a + k] = core[k]
          /\ \A k \in (a + Len(core) + 1)..Len(s) : IsSpace(s[k])

\* the answer and the key are the same text up to case and surrounding blanks;
\* an absent key counts as the empty key
SameText(text, key) ==
    LET stored == IF key = NoneStr THEN << >> ELSE key
    IN  \E c1 \in Pieces(text), c2 \in Pieces(stored) :
            /\ TrimOf(text, c1)
            /\ TrimOf(stored, c2)
            /\ Len(c1) = Len(c2)
            /\ \A k \in 1..Len(c1) : LowerChar(c1[k]) = LowerChar(c2[k])

\* the key has a character that is not a blank
KeyNotBlank(key) == key # NoneStr /\ \E k \in 1..Len(key) : ~IsSpace(key[k])

\* C8 as claimed: a text submission is accepted exactly when the answer, trimmed
\* and lower-cased, equals the answer key, trimmed and lower-cased, for every
\* answer and every key, an absent or empty key included.
C8_AcceptedIffEqual ==
    grading.verdict # "none" =>
        (grading.verdict = "accepted" <=> SameText(grading.text, grading.key))

\* C8 as amended: a text submission is accepted exactly when the answer key has
\* a non-blank character and the answer, trimmed and lower-cased, equals the
\* key, trimmed and lower-cased; with an absent, empty or blank key every answer
\* is rejected.
C8_AcceptedIffEqualNonEmptyKey ==
    grading.verdict # "none" =>
        (grading.verdict = "accepted" <=>
            (KeyNotBlank(grading.key) /\ SameText(grading.text, grading.key)))

\* an answer accepted although it differs from the key in case and in blanks
C8_Witness ==
    /\ grading.verdict = "accepted"
    /\ grading.text # grading.key
    /\ \E k \in 1..Len(grading.text) : IsSpace(grading.text[k])
    /\ \E k \in 1..Len(grading.key) : LowerChar(grading.key[k]) # grading.key[k]

\* the last token of an upload's name, lower-cased, when the name has a dot
Extension(file) ==
    IF file # << >> /\ \E k \in 1..Len(file) : file[k] = "."
    THEN LowerWord(file[Len(file)]) ELSE "(none)"

\* the submission the claim calls rejected: a text answer that does not match, or
\* a photo with no file, an empty file name or an extension that is not allowed
Refused(poi, form) ==
    IF poi.completion_type = "photo"
    THEN \/ form.file = NoFile
         \/ form.file = << >>
         \/ Extension(form.file) \notin {"jpg", "jpeg", "png", "webp"}
    ELSE ~SameText(form.text, poi.answer_key)

\* C9: a rejected submission changes nothing: when submit_proof has validated a
\* text answer that does not match, or a photo with a missing file, an empty
\* file name or an extension outside jpg/jpeg/png/webp, the request is over, no
\* Submission was appended, and the team's score, route_step_index, current POI
\* and finished flag and all progress records are as before.
C9_RejectedChangesNothing ==
    [][\A p \in Procs :
          (/\ req[p].pc = "submit_validate"
           /\ req'[p] # req[p]
           /\ Refused(pois[req[p].poi], req[p].form)) =>
              /\ req'[p].pc = "idle"
              /\ submissions' = submissions
              /\ teams' = teams
              /\ progress' = progress
              /\ awards' = awards]_vars

\* a photo with a suffix that is not allowed is about to be validated, after an
\* earlier submission of the team was accepted
C9_Witness ==
    \E p \in Procs :
        /\ req[p].pc = "submit_validate"
        /\ req[p].form.file = <<"photo", ".", "gif">>
        /\ Len(submissions) = 1
        /\ pois[req[p].poi].completion_type = "photo"

\* C10: a hint is never counted after scoring has read hints_used: for a team on
\* a route of distinct POIs, the points returned for a completed POI are
\* max(0, points - 2 * hints_used) for the hints_used stored in its record.
C10_AwardMatchesStoredHints ==
    \A a \in awards :
        LET k == FirstProgress(progress, a.team_id, a.poi_id)
        IN  (DistinctPois(a.team_id) /\ k # 0 /\ progress[k].status = "completed") =>
                a.points = Max(0, pois[a.poi_id].points - 2 * progress[k].hints_used)

\* the users that belong to team t
Members(t) == {u \in DOMAIN users : users[u].team_id = t}

RECURSIVE Flat(_)
Flat(groups) == IF groups = << >> THEN << >> ELSE Head(groups) \o Flat(Tail(groups))

\* the group sizes the claim describes for n users: fours, the rest last, and a
\* rest of 1 or 2 added to the group before it when there is one
GroupSizes(n) ==
    LET q == n \div 4
        r == n % 4
    IN  IF r = 0 THEN [k \in 1..q |-> 4]
        ELSE IF r >= 3 \/ q = 0 THEN [k \in 1..(q + 1) |-> IF k <= q THEN 4 ELSE r]
        ELSE [k \in 1..q |-> IF k < q THEN 4 ELSE 4 + r]

\* worker p starts a team formation run that passed its checks
StartsRun(p) == req[p].pc = "idle" /\ req'[p].pc = "gen_create"

\* worker p commits the members of the group it is at
AssignsGroup(p) == req[p].pc = "gen_assign" /\ req'[p].pc # "gen_assign"

\* C11: team formation over the n unassigned non-admin users cuts the shuffled
\* list into consecutive groups of 4, a last group of fewer than 3 merged into
\* the group before it; it creates one team per group, and every unassigned user
\* ends up a member of exactly one of the new teams.
C11_GroupsOfFourWithMerge ==
    [][\A p \in Procs :
          /\ StartsRun(p) =>
                LET ch == req'[p].chunks
                IN  /\ Len(Flat(ch)) = Cardinality(Ungrouped)
                    /\ Elems(Flat(ch)) = Ungrouped
                    /\ [k \in 1..Len(ch) |-> Len(ch[k])] = GroupSizes(Cardinality(Ungrouped))
          /\ AssignsGroup(p) =>
                LET r == req[p]
                    new == (r.count + 1)..(r.count + Len(r.chunks))
                IN  /\ Len(teams') = r.count + r.i
                    /\ r.team = r.count + r.i
                    /\ {u \in DOMAIN users : users'[u].team_id = r.team}
                           = Elems(r.chunks[r.i])
                    /\ req'[p].pc = "idle" =>
                          /\ Len(teams') = r.count + Len(r.chunks)
                          /\ \A u \in Elems(Flat(r.chunks)) :
                                /\ users'[u].team_id \in new
                                /\ u \in Elems(r.chunks[users'[u].team_id - r.count])]_vars

\* nine users formed into a team of 4 and, after the merge, a team of 5
C11_Witness ==
    /\ Quiescent
    /\ Len(teams) = 2
    /\ Cardinality(Members(1)) = 4
    /\ Cardinality(Members(2)) = 5

\* the participants that exist (user 1 is the admin)
Players == DOMAIN users \ {1}

\* C12 as claimed: team formation never creates an orphan team: for every number
\* n >= 1 of unassigned users, every team it created has at least 3 members.
C12_NoOrphanTeam ==
    Quiescent => \A t \in TeamIds : Cardinality(Members(t)) >= 3

\* C12 as amended: for every number n >= 3 of unassigned users, every team the
\* formation created has at least 3 members.
C12_NoOrphanTeamFromThree ==
    (Quiescent /\ Cardinality(Players) >= 3) =>
        \A t \in TeamIds : Cardinality(Members(t)) >= 3

\* six users: the last group of 2 was merged, leaving one team of 6
C12_Witness ==
    /\ Quiescent
    /\ Len(teams) = 1
    /\ Cardinality(Members(1)) = 6

\* the number of teams that have k members
TeamsOfSize(k) == Cardinality({t \in TeamIds : Cardinality(Members(t)) = k})

\* a run over 10 unassigned users and 2 routes is over
TenUsersTwoRoutes ==
    /\ Quiescent
    /\ Cardinality(Players) = 10
    /\ Len(routes) = 2
    /\ teams # << >>

\* C13 as claimed: team formation with 10 unassigned users and 2 routes produces
\* 3 teams of sizes {4,3,3}.
C13_TenUsersThreeTeams ==
    TenUsersTwoRoutes =>
        /\ Len(teams) = 3
        /\ TeamsOfSize(4) = 1
        /\ TeamsOfSize(3) = 2

\* C13 as amended: team formation with 10 unassigned users and 2 routes produces
\* 2 teams of sizes {4,6}.
C13_TenUsersTwoTeams ==
    TenUsersTwoRoutes =>
        /\ Len(teams) = 2
        /\ TeamsOfSize(4) = 1
        /\ TeamsOfSize(6) = 1

\* the run over 10 users and 2 routes is over and every user has a team
C13_Witness ==
    /\ TenUsersTwoRoutes
    /\ Ungrouped = {}
    /\ Cardinality(Members(2)) = 6

\* worker p creates the team of the group it is at
CreatesTeam(p) == req[p].pc = "gen_create" /\ req'[p].pc = "gen_assign"

\* the number of teams on route r among the teams tms
TeamsOnRoute(tms, r) == Cardinality({t \in 1..Len(tms) : tms[t].route_id = r})

\* C14: in one team formation run the i-th team created (i counted from 0) is
\* assigned the route at position i mod R of the R routes sorted by ascending
\* id, so that within the run the numbers of teams on any two routes differ by
\* at most 1.
C14_RoutesRoundRobin ==
    [][\A p \in Procs :
          CreatesTeam(p) =>
              LET r == req[p]
                  R == Len(routes)
                  i == r.i - 1
                  created == [k \in 1..r.i |-> teams'[r.count + k]]
              IN  /\ \A a, b \in 1..R : a < b => routes[a] < routes[b]
                  /\ Len(teams') = r.count + r.i
                  /\ teams'[r.count + r.i].route_id = routes[(i % R) + 1]
                  /\ \A a, b \in 1..R :
                        TeamsOnRoute(created, routes[a]) - TeamsOnRoute(created, routes[b])
                            \in {-1, 0, 1}]_vars

\* a run over 2 routes that created a third team, back on the first route
C14_Witness ==
    /\ Len(routes) = 2
    /\ Len(teams) = 3
    /\ teams[1].route_id = 1
    /\ teams[2].route_id = 2
    /\ teams[3].route_id = 1

\* the request of worker p is a team formation that was refused
Refusing(p) == req[p].pc \in {"gen_no_users", "gen_no_routes"}

\* C15: team formation invoked when there is no unassigned non-admin user, or
\* when no route exists, fails without mutating anything: the handler goes to its
\* error message and returns, and no team is created and no user's team, no
\* team's state and no progress record changes.
C15_RefusedFormationChangesNothing ==
    [][\A p \in Procs :
          /\ (/\ req[p].pc = "idle"
              /\ req'[p].pc \in {"gen_create", "gen_no_users", "gen_no_routes"}
              /\ (Ungrouped = {} \/ routes = << >>)) =>
                 /\ req'[p].pc \in {"gen_no_users", "gen_no_routes"}
                 /\ UNCHANGED <<users, teams, progress, submissions>>
          /\ (Refusing(p) /\ req'[p] # req[p]) =>
                 /\ req'[p] = IdleReq
                 /\ UNCHANGED <<users, teams, progress, submissions>>]_vars

\* a formation refused for want of unassigned users, after an earlier run
\* created teams
C15_Witness ==
    \E p \in Procs :
        /\ req[p].pc = "gen_no_users"
        /\ teams # << >>
        /\ routes # << >>

\* worker p is in a team formation run
Forming(p) == req[p].pc \in {"gen_create", "gen_assign"}

\* C16: when two team formation runs are processed concurrently over the same
\* unassigned users, no user is claimed by both: no user is in a group of both
\* runs, and every team keeps the members of the group it was created for (so
\* that, once the runs are over, no team is without members).
C16_NoUserClaimedTwice ==
    /\ \A p, q \in Procs :
          (p # q /\ Forming(p) /\ Forming(q)) =>
              Elems(Flat(req[p].chunks)) \cap Elems(Flat(req[q].chunks)) = {}
    /\ Quiescent => \A t \in TeamIds : Members(t) # {}

\* the rows of team t among the rows tbl
RowsOfTeam(tbl, t) == {k \in 1..Len(tbl) : tbl[k].team_id = t}

\* C17: with the requests handled one at a time, the finished state is
\* terminal: once a team's is_finished is true it stays true, and no later step,
\* a hint request or a submission by that team included, changes its score, its
\* route_step_index, its current POI, its progress records or its submissions.
C17_FinishedIsTerminal ==
    [][\A t \in TeamIds :
          teams[t].is_finished =>
              /\ teams'[t].is_finished
              /\ teams'[t] = teams[t]
              /\ RowsOfTeam(progress', t) = RowsOfTeam(progress, t)
              /\ \A k \in RowsOfTeam(progress, t) : progress'[k] = progress[k]
              /\ RowsOfTeam(submissions', t) = RowsOfTeam(submissions, t)
              /\ \A k \in RowsOfTeam(submissions, t) : submissions'[k] = submissions[k]]_vars

\* a team that finished a route of two steps with points, and whose members can
\* still send requests
C17_Witness ==
    /\ Quiescent
    /\ \E t \in TeamIds :
          /\ teams[t].is_finished
          /\ teams[t].score > 0
          /\ Cardinality(RowsOfTeam(submissions, t)) = 2
          /\ Members(t) # {}

\* no two of the progress records prg are for the same (team, POI)
OnePerTeamAndPoi(prg) ==
    \A a, b \in 1..Len(prg) :
        (prg[a].team_id = prg[b].team_id /\ prg[a].poi_id = prg[b].poi_id) => a = b

\* C18: in every reachable state, the states reached by interleaved requests
\* included, there is at most one TeamPOIProgress record per (team, POI), and no
\* progress record is ever deleted.
C18_ProgressUniqueNeverDeleted ==
    [][/\ OnePerTeamAndPoi(progress')
       /\ Len(progress') >= Len(progress)
       /\ \A k \in 1..Len(progress) :
             /\ progress'[k].team_id = progress[k].team_id
             /\ progress'[k].poi_id = progress[k].poi_id]_vars

\* two interleaved submissions have both completed the same step of a team
C18_Witness ==
    /\ races > 0
    /\ Quiescent
    /\ \E t \in TeamIds :
          /\ DistinctPois(t)
          /\ teams[t].route_step_index = 2
          /\ Cardinality(CompletedPois(t)) = 1
          /\ Cardinality(RowsOfTeam(progress, t)) = 2

\* C19: in every reachable (committed) state every team that is not finished has
\* exactly one of: a current POI, or no route; a team with a route, no current
\* POI and is_finished false is never observable.
C19_CurrentPoiOrNoRoute ==
    \A t \in TeamIds :
        ~teams[t].is_finished =>
            ((teams[t].current_poi_id # NoId) <=> ~(teams[t].route_id = NoId))

\* the step of route r that has exactly k - 1 steps of r with a smaller index
KthSmallestStep(r, k) ==
    {a \in 1..Len(steps) :
        /\ steps[a].route_id = r
        /\ Cardinality({b \in 1..Len(steps) :
               steps[b].route_id = r /\ steps[b].step_index < steps[a].step_index}) = k - 1}

\* the number of steps of route r
StepCount(r) == Cardinality({a \in 1..Len(steps) : steps[a].route_id = r})

\* C20: with the requests handled one at a time, a team walks its route in
\* ascending step_index order whatever the index values are (gaps allowed): its
\* k-th accepted submission completes the POI of the k-th smallest step index,
\* and it becomes finished after exactly as many accepted submissions as its
\* route has steps.
C20_WalksAscendingStepIndex ==
    [][/\ \A p \in Procs :
             Completes(p) =>
                 LET t == req[p].team
                     k == Cardinality(RowsOfTeam(submissions, t))
                     kth == KthSmallestStep(teams[t].route_id, k)
                 IN  /\ kth # {}
                     /\ \A a \in kth : steps[a].poi_id = req[p].poi
                     /\ teams'[t].is_finished <=> k = StepCount(teams[t].route_id)
       /\ \A t \in TeamIds :
             teams[t].is_finished =>
                 Cardinality(RowsOfTeam(submissions, t)) = StepCount(teams[t].route_id)]_vars

\* a team finished a route whose steps were entered out of order, with a gap
\* between their indices
C20_Witness ==
    /\ Quiescent
    /\ Len(steps) > 1
    /\ steps[1].route_id = 1 /\ steps[2].route_id = 1
    /\ steps[1].step_index > steps[2].step_index + 1
    /\ \E t \in TeamIds :
          /\ teams[t].route_id = 1
          /\ teams[t].is_finished
          /\ Cardinality(RowsOfTeam(submissions, t)) = 2

\* the steps of route r that no other step of r precedes in step_index
LowestSteps(r) ==
    {a \in 1..Len(steps) :
        /\ steps[a].route_id = r
        /\ \A b \in 1..Len(steps) :
              steps[b].route_id = r => steps[a].step_index <= steps[b].step_index}

\* C21: with the requests handled one at a time, each team created by team
\* formation starts with route_step_index 0 and score 0, and once its group is
\* attached its current POI is the POI of the lowest-index step of its route,
\* with one progress record for it, of status assigned and 0 hints; when its
\* route has no steps the team is finished with no current POI and no record.
C21_NewTeamSeededAtFirstStep ==
    [][\A p \in Procs :
          /\ CreatesTeam(p) =>
                /\ teams'[Len(teams')].route_step_index = 0
                /\ teams'[Len(teams')].score = 0
          /\ AssignsGroup(p) =>
                LET t == req[p].team
                    low == LowestSteps(teams[t].route_id)
                    rec == RowsFor(progress', t, teams'[t].current_poi_id)
                IN  /\ teams'[t].route_step_index = 0
                    /\ teams'[t].score = 0
                    /\ IF low = {}
                       THEN /\ teams'[t].is_finished
                            /\ teams'[t].current_poi_id = NoId
                            /\ RowsOfTeam(progress', t) = {}
                       ELSE /\ ~teams'[t].is_finished
                            /\ \A a \in low : steps[a].poi_id = teams'[t].current_poi_id
                            /\ Cardinality(rec) = 1
                            /\ RowsOfTeam(progress', t) = rec
                            /\ \A k \in rec : /\ progress'[k].status = "assigned"
                                              /\ progress'[k].hints_used = 0]_vars

\* a new team stands on the lowest-index step of a route whose steps were
\* entered out of order
C21_Witness ==
    /\ Len(steps) > 1
    /\ steps[1].route_id = 1 /\ steps[2].route_id = 1
    /\ steps[1].step_index > steps[2].step_index
    /\ \E t \in TeamIds :
          /\ teams[t].route_id = 1
          /\ Members(t) # {}
          /\ teams[t].route_step_index = 0
          /\ teams[t].current_poi_id = steps[2].poi_id
          /\ progress = <<TeamPOIProgress(t, steps[2].poi_id, "assigned")>>

\* worker p's submit_proof accepts the proof it holds
AcceptsProof(p) == req[p].pc = "submit_validate" /\ req'[p].pc = "complete_lookup"

\* worker p's submit_proof rejects the proof it holds
RejectsProof(p) == req[p].pc = "submit_validate" /\ req'[p].pc = "idle"

\* C22: in every reachable state, interleaved requests included, every accepted
\* proof appends exactly one Submission for (team, POI) before the POI is
\* completed by that request, a rejected proof appends none, submissions are
\* never modified or removed, and each completed progress record of a team has
\* at least one Submission for the same team and POI.
C22_SubmissionBeforeCompletion ==
    [][/\ Len(submissions') >= Len(submissions)
       /\ SubSeq(submissions', 1, Len(submissions)) = submissions
       /\ \A p \in Procs :
             /\ AcceptsProof(p) =>
                   /\ Len(submissions') = Len(submissions) + 1
                   /\ submissions'[Len(submissions')].team_id = req[p].team
                   /\ submissions'[Len(submissions')].poi_id = req[p].poi
                   /\ submissions'[Len(submissions')].type =
                         pois[req[p].poi].completion_type
                   /\ progress' = progress
             /\ RejectsProof(p) => submissions' = submissions
             /\ Completes(p) =>
                   \E j \in RowsOfTeam(submissions, req[p].team) :
                       submissions[j].poi_id = req[p].poi
       /\ \A k \in 1..Len(progress') :
             progress'[k].status = "completed" =>
                 \E j \in RowsOfTeam(submissions', progress'[k].team_id) :
                     submissions'[j].poi_id = progress'[k].poi_id]_vars

\* a team has completed both steps of its route, one of them twice over through
\* two interleaved submissions, and has a Submission for each
C22_Witness ==
    /\ races > 0
    /\ Quiescent
    /\ \E t \in TeamIds :
          /\ DistinctPois(t)
          /\ Cardinality(CompletedPois(t)) = 2
          /\ Cardinality(RowsOfTeam(submissions, t)) = 3

\* the position of POI q among the steps of team t's route, 0 when it is not one
PositionOf(t, q) ==
    LET st == StepsOf(steps, teams[t].route_id)
        at == {i \in 1..Len(st) : st[i].poi_id = q}
    IN  IF at = {} THEN 0 ELSE CHOOSE i \in at : \A j \in at : i <= j

\* C23: with the requests handled one at a time, the scoring transition is
\* atomic: the step that commits a (team, POI) progress record as completed also
\* commits the award on the team's score, the route_step_index one further and
\* the current POI of the next step (none, with is_finished, at the end of the
\* route); so in no state is a record completed while the team's
\* route_step_index counts fewer completions or stands at or before that POI.
C23_ScoringTransitionAtomic ==
    [][/\ \A k \in 1..Len(progress) :
             (progress[k].status # "completed" /\ progress'[k].status = "completed") =>
                 LET t == progress[k].team_id
                     st == StepsOf(steps, teams[t].route_id)
                     i == teams[t].route_step_index
                 IN  /\ teams'[t].score = teams[t].score
                            + Award(pois[progress[k].poi_id].points, progress'[k].hints_used)
                     /\ teams'[t].route_step_index = i + 1
                     /\ IF i + 1 >= Len(st)
                        THEN teams'[t].is_finished /\ teams'[t].current_poi_id = NoId
                        ELSE /\ ~teams'[t].is_finished
                             /\ teams'[t].current_poi_id = st[i + 2].poi_id
       /\ \A t \in TeamIds :
             DistinctPois(t) =>
                 \A k \in RowsOfTeam(progress', t) :
                     progress'[k].status = "completed" =>
                         /\ teams'[t].current_poi_id # progress'[k].poi_id
                         /\ teams'[t].route_step_index >= PositionOf(t, progress'[k].poi_id)
                         /\ teams'[t].route_step_index >=
                               Cardinality({j \in RowsOfTeam(progress', t) :
                                               progress'[j].status = "completed"})]_vars

\* a team has one step completed with points after a hint, and stands on the
\* next step
C23_Witness ==
    \E t \in TeamIds :
        /\ DistinctPois(t)
        /\ teams[t].route_step_index = 1
        /\ teams[t].current_poi_id # NoId
        /\ teams[t].score > 0
        /\ \E k \in RowsOfTeam(progress, t) :
              progress[k].status = "completed" /\ progress[k].hints_used > 0

\* worker p takes a step of a request_hint it is handling
HintStep(p) == req[p].pc \in {"hint_lookup", "hint_incr"} /\ req'[p] # req[p]

\* C24: with the requests handled one at a time, request_hint causes no state
\* transition: it changes only hints_used of the progress record of (team,
\* current POI), creating that record with 0 hints if it is missing, and leaves
\* the users, the team's score, route_step_index, current POI and is_finished,
\* all submissions and every other progress record unchanged.
C24_HintChangesOnlyHintCount ==
    [][\A p \in Procs :
          HintStep(p) =>
              LET t == req[p].team
                  cur == teams[t].current_poi_id
              IN  /\ teams' = teams
                  /\ users' = users
                  /\ submissions' = submissions
                  /\ catalog' = catalog
                  /\ Len(progress') \in {Len(progress), Len(progress) + 1}
                  /\ \A k \in 1..Len(progress) :
                        \/ progress'[k] = progress[k]
                        \/ /\ progress[k].team_id = t
                           /\ progress[k].poi_id = cur
                           /\ progress'[k] =
                                 [progress[k] EXCEPT !.hints_used = progress'[k].hints_used]
                  /\ Len(progress') > Len(progress) =>
                        /\ RowsFor(progress, t, cur) = {}
                        /\ progress'[Len(progress')] = TeamPOIProgress(t, cur, "assigned")]_vars

\* a hint was counted on the second step of a route: the team has a completed
\* record, a Submission and a score that the hint must leave alone
C24_Witness ==
    /\ Quiescent
    /\ Len(submissions) = 1
    /\ \E t \in TeamIds :
          /\ teams[t].route_step_index = 1
          /\ teams[t].score > 0
          /\ DistinctPois(t)
          /\ \E k \in RowsFor(progress, t, teams[t].current_poi_id) :
                progress[k].hints_used = 2
          /\ \E k \in RowsOfTeam(progress, t) :
                progress[k].status = "completed" /\ progress[k].hints_used = 0

\* worker p's request_hint or submit_proof gets past the checks of its first lines
Proceeds(p) ==
    req[p].pc = "idle" /\ req'[p].pc \in {"hint_lookup", "submit_validate"}

\* worker p refuses a hint request or a submission, or answers one it refused
RefusalStep(p) ==
    req'[p] # req[p] /\ (req[p].pc = "refused" \/ req'[p].pc = "refused")

\* C25: with the requests handled one at a time, a hint request or a submission
\* made by a visitor, by a user with no team, by an admin, or by a team that has
\* no current POI (no route, or finished) is a silent no-op: it creates no
\* record and changes no field of any user, team, progress record or
\* submission; only a request of a non-admin member of a team that has a route,
\* a current POI and is not finished gets past the checks.
C25_IneligibleRequestIsNoOp ==
    [][\A p \in Procs :
          /\ RefusalStep(p) => UNCHANGED <<db, awards>>
          /\ Proceeds(p) =>
                LET t == req'[p].team
                IN  /\ t \in TeamIds
                    /\ \E u \in Members(t) : ~users[u].is_admin
                    /\ teams[t].route_id # NoId
                    /\ ~teams[t].is_finished
                    /\ teams[t].current_poi_id # NoId
                    /\ req'[p].poi = teams[t].current_poi_id
                    /\ UNCHANGED <<db, awards>>]_vars

\* a request is refused while the only team is finished, with points and
\* submissions on record
C25_Witness ==
    /\ \E p \in Procs : req[p].pc = "refused"
    /\ Len(submissions) > 1
    /\ \A u \in DOMAIN users :
          users[u].team_id # NoId =>
              /\ teams[users[u].team_id].is_finished
              /\ teams[users[u].team_id].score > 0

\* the team worker p's request acts for in this step, NoId when it has none
ActingTeam(p) == IF req[p].team # NoId THEN req[p].team ELSE req'[p].team

\* C26: operations of one team need no coordination with other teams: under
\* any interleaving, no step of a hint request or a submission by team A
\* changes the score, route_step_index, current POI, is_finished, progress
\* records or submissions of any other team B, or the team of any user.
C26_OtherTeamsUntouched ==
    [][\A p \in Procs :
          req'[p] # req[p] =>
              /\ users' = users
              /\ \A B \in TeamIds \ {ActingTeam(p)} :
                    /\ teams'[B] = teams[B]
                    /\ RowsOfTeam(progress', B) = RowsOfTeam(progress, B)
                    /\ \A k \in RowsOfTeam(progress, B) : progress'[k] = progress[k]
                    /\ RowsOfTeam(submissions', B) = RowsOfTeam(submissions, B)
                    /\ \A k \in RowsOfTeam(submissions, B) :
                          submissions'[k] = submissions[k]]_vars

\* requests of the two teams have overlapped, and each team has completed a
\* step and taken a hint on the same POIs
C26_Witness ==
    /\ races > 0
    /\ Len(teams) = 2
    /\ teams[1].route_id = teams[2].route_id
    /\ \A t \in TeamIds :
          /\ teams[t].route_step_index > 0
          /\ \E k \in RowsOfTeam(progress, t) : progress[k].hints_used > 0

\* some form is accepted for every POI on the route of team t
Answerable(t) ==
    \A a \in 1..Len(steps) :
        steps[a].route_id = teams[t].route_id =>
            \E f \in Forms(pois[steps[a].poi_id]) : Accepted(pois[steps[a].poi_id], f)

\* whenever team t has a current POI, a proof of it is accepted later on
KeepsSubmitting(t) ==
    (t \in TeamIds /\ teams[t].current_poi_id # NoId)
        ~> (\E p \in Procs : req[p].pc = "complete_lookup" /\ req[p].team = t)

\* C27: with the requests handled one at a time and every handler run to its
\* end, a team that keeps making accepted submissions for its current POI
\* eventually reaches is_finished = true, whatever hint requests and rejected
\* submissions are made in between; and no operation blocks: a request that is
\* past its checks is answered.
C27_EventuallyFinished ==
    /\ \A t \in 1..Workers :
          KeepsSubmitting(t) => ((t \in TeamIds) ~> (t \in TeamIds /\ teams[t].is_finished))
    /\ (\E p \in Procs : req[p].pc \notin {"idle", "submit_validate"}) ~> Quiescent

\* a team finished a route of two steps after the full three hints on one of
\* them
C27_Witness ==
    \E t \in TeamIds :
        /\ teams[t].is_finished
        /\ Answerable(t)
        /\ Cardinality(RowsOfTeam(submissions, t)) = 2
        /\ \E k \in RowsOfTeam(progress, t) : progress[k].hints_used = MaxHints

\* C28: within one route step indices are unique after any sequence of
\* route-step creations, interleaved ones included.
C28_StepIndicesUnique ==
    \A a, b \in 1..Len(steps) :
        (steps[a].route_id = steps[b].route_id /\ steps[a].step_index = steps[b].step_index)
            => a = b

\* worker p moves on in a team formation request (its checks, a refusal, a team
\* created, a group assigned)
FormationStep(p) ==
    /\ req'[p] # req[p]
    /\ \/ req[p].pc \in {"gen_create", "gen_assign", "gen_no_users", "gen_no_routes"}
       \/ req'[p].pc \in {"gen_create", "gen_no_users", "gen_no_routes"}

\* C29: with the requests handled one at a time, team formation only targets
\* non-admin users with no team: in every step of a formation run the users
\* who belong to a team keep it, the admin users stay without a team, and
\* every team but the one whose group is being attached keeps its members,
\* route, score, route_step_index and current POI (the whole row); when a run
\* that created teams ends nobody is left unassigned, so that a run started
\* with nobody unassigned is refused and creates no team.
C29_FormationOnlyTargetsUngrouped ==
    [][\A p \in Procs :
          FormationStep(p) =>
              /\ \A u \in DOMAIN users :
                    /\ u \in DOMAIN users'
                    /\ users[u].team_id # NoId => users'[u] = users[u]
                    /\ users[u].is_admin => users'[u] = users[u] /\ users[u].team_id = NoId
              /\ \A t \in TeamIds :
                    t # req[p].team =>
                        /\ teams'[t] = teams[t]
                        /\ {u \in DOMAIN users' : users'[u].team_id = t} = Members(t)
              /\ (req[p].pc = "gen_assign" /\ req'[p].pc = "idle") =>
                    /\ {u \in DOMAIN users' : ~users'[u].is_admin /\ users'[u].team_id = NoId} = {}
                    /\ FormationCheck({}, routes') = "gen_no_users"
              /\ (req[p].pc = "idle" /\ \A u \in DOMAIN users :
                                            users[u].is_admin \/ users[u].team_id # NoId) =>
                    /\ req'[p].pc = "gen_no_users"
                    /\ teams' = teams
              /\ req[p].pc = "gen_no_users" => teams' = teams /\ users' = users]_vars

\* a second run has put a participant added after the first run in a team of
\* their own: the first run's team has scored since, and its members are still
\* the participants of setup
C29_Witness ==
    /\ Quiescent
    /\ Len(teams) = 2
    /\ teams[1].score > 0
    /\ Members(1) = 2..(NPlayers + 1)
    /\ Members(2) = {NPlayers + 2}

\* the progress records of team t that are completed
CompletedRecords(t) ==
    {k \in RowsOfTeam(progress, t) : progress[k].status = "completed"}

\* the award of lines 672-673 summed over the progress records ks
RECURSIVE SumAwards(_)
SumAwards(ks) ==
    IF ks = {} THEN 0
    ELSE LET k == CHOOSE j \in ks : TRUE
         IN  Award(pois[progress[k].poi_id].points, progress[k].hints_used)
                 + SumAwards(ks \ {k})

\* C30: in every reachable state a team's score equals the sum, over its
\* completed progress records, of max(0, points of the record's POI - 2 *
\* hints_used of the record); in particular the score is never negative.
C30_ScoreIsSumOfCompletedAwards ==
    \A t \in TeamIds :
        /\ teams[t].score = SumAwards(CompletedRecords(t))
        /\ teams[t].score >= 0

\* the progress records of team t for POI q
RecordsOf(t, q) == {k \in RowsOfTeam(progress, t) : progress[k].poi_id = q}

\* C31: whenever a team has a current POI, a progress record for (team, current
\* POI) exists and its status is assigned, not completed, on every route, the
\* routes that bind one POI at more than one step included.
C31_CurrentPoiRecordAssigned ==
    \A t \in TeamIds :
        teams[t].current_poi_id # NoId =>
            /\ RecordsOf(t, teams[t].current_poi_id) # {}
            /\ \A k \in RecordsOf(t, teams[t].current_poi_id) :
                  progress[k].status = "assigned"

\* the cursor of team t is within its route and its current POI, when it has
\* one, is the POI of the step the cursor is at
CursorOnRoute(t) ==
    LET st == StepsOf(steps, teams[t].route_id)
        i == teams[t].route_step_index
    IN  /\ 0 <= i /\ i <= Len(st)
        /\ teams[t].current_poi_id # NoId =>
              /\ i < Len(st)
              /\ st[i + 1].poi_id = teams[t].current_poi_id

\* the cursor of team t stays, or moves by one in the commit of a completion
\* for team t
CursorStep(t) ==
    \/ teams'[t].route_step_index = teams[t].route_step_index
    \/ /\ teams'[t].route_step_index = teams[t].route_step_index + 1
       /\ \E p \in Procs : Completes(p) /\ req[p].team = t

\* C32: for every team with a route, in every reachable state 0 <=
\* route_step_index <= number of steps of the route; route_step_index never
\* decreases, it changes only by +1 and only through an accepted submission;
\* and whenever the team has a current POI, it is the POI of the step at
\* position route_step_index in ascending step_index order.
C32_CursorWithinRouteAndMonotone ==
    /\ [](\A t \in TeamIds : teams[t].route_id # NoId => CursorOnRoute(t))
    /\ [][\A t \in TeamIds : teams[t].route_id # NoId => CursorStep(t)]_vars

====
